---- MODULE Spec2Model ----
(***************************************************************************)
(* Execution core of the big-number coprocessor simulator                  *)
(* (src/bignum_lib/machine.py, class Machine): program counter, loop and   *)
(* call stack, breakpoint table, force-break and the step operation.       *)
(*                                                                         *)
(* Python values are modelled as follows.  An optional integer (None or    *)
(* an int) is a set with at most one element; a tuple is a TLA+ tuple; the *)
(* breakpoints dictionary is a function whose domain is the set of keys.   *)
(* An instruction is opaque to the machine: what execute() does to the     *)
(* stacks and which jump address it returns is chosen nondeterministically *)
(* from Effects at every execution.  Two specifications share the          *)
(* actions: Spec runs programs with every loop frame the bounds allow      *)
(* under a small debugger, SpecDebug runs the whole debugger over programs *)
(* whose loop frames have one shape and that never return on an empty call *)
(* stack.                                                                  *)
(***************************************************************************)
EXTENDS Integers, Sequences, FiniteSets, TLC

\* ------------------------------------------------------------------ bounds
\* Longest instruction memory explored.
MaxImem == 2
\* Largest iteration count an executed instruction pushes on the loop stack.
MaxLoopCnt == 1
\* Deepest loop / call stack the executed instructions build.
MaxLoopDepth == 2
MaxCallDepth == 2
\* Deepest loop and call stack built under the whole debugger.
MaxDebugDepth == 1
\* Longest sequence of initial data memory values given to reset.
MaxDmem == 2
\* Largest number of things (registers, written memory cells, a flag group
\* set, stack entries) changed since they were cleared, when the register,
\* flag and memory operations are driven directly.
MaxDirty == 1
\* Largest number of required passes given to toggle_breakpoint.
MaxPasses == 2
\* Largest breakpoint table the debugger commands build.
MaxBps == 1
MaxLoopImem == 3

\* ------------------------------------------------------- program constants
IMEM_DEPTH == 1024
LOOP_STACK_SIZE == 16
CALL_STACK_SIZE == 16
NUM_REGS == 32
XLEN == 256
LIMBS == 8
DMEM_DEPTH == 128

VARIABLES
    pc,           \* self.pc
    imemLen,      \* len(self.imem)
    stop_addr,    \* self.stop_addr
    loop_stack,   \* self.loop_stack: sequence of <<cnt, end_addr, start_addr>>
    call_stack,   \* self.call_stack: sequence of return addresses
    breakpoints,  \* Machine.breakpoints: address -> <<passes, counter>>
    force_break,  \* Machine.force_break: <<active, consider_cs, cs, consider_ls, ls>>
    mode,         \* position of the thread: "idle", "broken" (inside
                  \* __handle_break_command, waiting for input) or "exited"
    halt,         \* local variable halt of the step call that is suspended
    last,         \* history: what the last operation was given and returned
    run,          \* history: the run since the last reset
    since,        \* history: per breakpoint, arrivals counted by the table
                  \* since it was installed or last broke
    r,            \* self.r: general register index -> value (non-zero)
    sreg,         \* self.mod, dmp, rfp, lc, rnd: special register name -> value
    r_valid_half_limbs,  \* self.r_valid_half_limbs: index -> the slots that
                  \* hold True
    flags,        \* self.M, L, Z, C, XM, XL, XZ, XC
    dmem,         \* self.dmem: address -> value (non-zero)
    init_dmem,    \* self.init_dmem: the addresses that hold True
    hist,         \* history: the last register, flag, memory or stack
                  \* operation, and what reset was given
    other,        \* a second Machine instance: whether it is constructed,
                  \* and its own force_break attribute once it has one
    track         \* history: the loop whose frame a step pushed, followed
                  \* while its body runs

data == <<r, sreg, r_valid_half_limbs, flags, dmem, init_dmem>>

vars == <<pc, imemLen, stop_addr, loop_stack, call_stack, breakpoints,
          force_break, mode, halt, last, run, since, data, hist, other,
          track>>

\* --------------------------------------------------------- Python helpers
None == {}

Some(v) == {v}

\* The element of a non-empty optional.
Val(o) == CHOOSE v \in o : TRUE

\* Python truth value of an optional integer: None and 0 are false.
Truthy(o) == \E v \in o : v # 0

Min(a, b) == IF a < b THEN a ELSE b

\* ------------------------------------------------------------- the machine
\* __check_imem_addr: TRUE when the address passes the check.
check_imem_addr(addr, n) == ~(addr < 0 \/ addr >= n)

push_loop_stack(ls, cnt, end_addr, start_addr) ==
    Append(ls, <<cnt, end_addr, start_addr>>)

\* dec_top_loop_cnt popping the frame whose count has reached zero.
dec_top_loop_cnt_pop(ls) ==
    LET top == ls[Len(ls)] IN
    IF top[1] # 0
    THEN [ret |-> TRUE,
          ls  |-> [ls EXCEPT ![Len(ls)] = <<top[1] - 1, top[2], top[3]>>]]
    ELSE [ret |-> FALSE, ls |-> SubSeq(ls, 1, Len(ls) - 1)]

\* dec_top_loop_cnt on a non-empty loop stack: the returned boolean and the
\* loop stack afterwards.
dec_top_loop_cnt(ls) ==
    LET top == ls[Len(ls)] IN
    IF top[1] # 0
    THEN [ret |-> TRUE,
          ls  |-> [ls EXCEPT ![Len(ls)] = <<top[1] - 1, top[2], top[3]>>]]
    ELSE [ret |-> FALSE, ls |-> ls]

get_top_loop_end_addr(ls) == ls[Len(ls)][2]

get_top_loop_start_addr(ls) == ls[Len(ls)][3]

\* pop_loop_stack on a non-empty loop stack: the loop stack afterwards.
pop_loop_stack(ls) == SubSeq(ls, 1, Len(ls) - 1)

push_call_stack(cs, address) == Append(cs, address)

\* pop_call_stack on a non-empty call stack: the call stack afterwards.
pop_call_stack(cs) == SubSeq(cs, 1, Len(cs) - 1)

\* push_loop_stack with the capacity test off by one.
push_loop_stack_err_gt(ls, end_addr, start_addr, n) ==
    IF ~check_imem_addr(start_addr, n) \/ ~check_imem_addr(end_addr, n)
    THEN "IndexError"
    ELSE IF Len(ls) > LOOP_STACK_SIZE THEN "OverflowError" ELSE ""

\* push_loop_stack, lines 317-320: the error raised ("" when none).
push_loop_stack_err(ls, end_addr, start_addr, n) ==
    IF ~check_imem_addr(start_addr, n) \/ ~check_imem_addr(end_addr, n)
    THEN "IndexError"
    ELSE IF Len(ls) = LOOP_STACK_SIZE THEN "OverflowError" ELSE ""

\* push_call_stack, lines 354-356: the error raised ("" when none).
push_call_stack_err(cs, address, n) ==
    IF ~check_imem_addr(address, n) THEN "IndexError"
    ELSE IF Len(cs) = CALL_STACK_SIZE THEN "OverflowError" ELSE ""

\* pop_call_stack returning the oldest return address.
pop_call_stack_ret_first(cs) == cs[1]

\* pop_call_stack on a non-empty call stack: the address returned.
pop_call_stack_ret(cs) == cs[Len(cs)]

\* pop_loop_stack on a non-empty loop stack: the start address returned.
pop_loop_stack_ret(ls) == ls[Len(ls)][3]

clear_force_break == <<FALSE, FALSE, 0, FALSE, 0>>

set_force_break(consider_callstack, callstack, consider_loopstack, loopstack) ==
    <<TRUE, consider_callstack, callstack, consider_loopstack, loopstack>>

\* toggle_breakpoint installing the pass counter at 0.
toggle_breakpoint_cnt0(bps, addr, passes) ==
    IF addr \in DOMAIN bps
    THEN [a \in DOMAIN bps \ {addr} |-> bps[a]]
    ELSE IF addr \in 0..(IMEM_DEPTH - 1)
         THEN [a \in DOMAIN bps \cup {addr} |->
                  IF a = addr THEN <<passes, 0>> ELSE bps[a]]
         ELSE bps

\* toggle_breakpoint with an integer address: the table afterwards.
toggle_breakpoint(bps, addr, passes) ==
    IF addr \in DOMAIN bps
    THEN [a \in DOMAIN bps \ {addr} |-> bps[a]]
    ELSE IF addr \in 0..(IMEM_DEPTH - 1)
         THEN [a \in DOMAIN bps \cup {addr} |->
                  IF a = addr THEN <<passes, 1>> ELSE bps[a]]
         ELSE bps

\* __check_break leaving the pass counter as it is when it breaks.
check_break_keep_cnt(fb, bps, p, ls, cs) ==
    IF fb[1] /\ fb[4] /\ Len(ls) = fb[5]
    THEN [is_break |-> TRUE, passes |-> 0, fb |-> clear_force_break, bps |-> bps]
    ELSE IF fb[1] /\ fb[2] /\ Len(cs) = fb[3]
    THEN [is_break |-> TRUE, passes |-> 0, fb |-> clear_force_break, bps |-> bps]
    ELSE IF fb[1] /\ ~fb[2] /\ ~fb[4]
    THEN [is_break |-> TRUE, passes |-> 0, fb |-> clear_force_break, bps |-> bps]
    ELSE IF DOMAIN bps # {} /\ p \in DOMAIN bps
    THEN IF bps[p][2] = bps[p][1]
         THEN [is_break |-> TRUE, passes |-> bps[p][1], fb |-> fb, bps |-> bps]
         ELSE [is_break |-> FALSE, passes |-> 0, fb |-> fb,
               bps |-> [bps EXCEPT ![p] = <<bps[p][1], bps[p][2] + 1>>]]
    ELSE [is_break |-> FALSE, passes |-> 0, fb |-> fb, bps |-> bps]

\* __check_break without the case of a force-break that has no depth target.
check_break_no_plain(fb, bps, p, ls, cs) ==
    IF fb[1] /\ fb[4] /\ Len(ls) = fb[5]
    THEN [is_break |-> TRUE, passes |-> 0, fb |-> clear_force_break, bps |-> bps]
    ELSE IF fb[1] /\ fb[2] /\ Len(cs) = fb[3]
    THEN [is_break |-> TRUE, passes |-> 0, fb |-> clear_force_break, bps |-> bps]
    ELSE IF DOMAIN bps # {} /\ p \in DOMAIN bps
    THEN IF bps[p][2] = bps[p][1]
         THEN [is_break |-> TRUE, passes |-> bps[p][1], fb |-> fb,
               bps |-> [bps EXCEPT ![p] = <<bps[p][1], 1>>]]
         ELSE [is_break |-> FALSE, passes |-> 0, fb |-> fb,
               bps |-> [bps EXCEPT ![p] = <<bps[p][1], bps[p][2] + 1>>]]
    ELSE [is_break |-> FALSE, passes |-> 0, fb |-> fb, bps |-> bps]

\* __check_break comparing the call-stack depth with >= instead of ==.
check_break_ge(fb, bps, p, ls, cs) ==
    IF fb[1] /\ fb[4] /\ Len(ls) = fb[5]
    THEN [is_break |-> TRUE, passes |-> 0, fb |-> clear_force_break, bps |-> bps]
    ELSE IF fb[1] /\ fb[2] /\ Len(cs) >= fb[3]
    THEN [is_break |-> TRUE, passes |-> 0, fb |-> clear_force_break, bps |-> bps]
    ELSE IF fb[1] /\ ~fb[2] /\ ~fb[4]
    THEN [is_break |-> TRUE, passes |-> 0, fb |-> clear_force_break, bps |-> bps]
    ELSE IF DOMAIN bps # {} /\ p \in DOMAIN bps
    THEN IF bps[p][2] = bps[p][1]
         THEN [is_break |-> TRUE, passes |-> bps[p][1], fb |-> fb,
               bps |-> [bps EXCEPT ![p] = <<bps[p][1], 1>>]]
         ELSE [is_break |-> FALSE, passes |-> 0, fb |-> fb,
               bps |-> [bps EXCEPT ![p] = <<bps[p][1], bps[p][2] + 1>>]]
    ELSE [is_break |-> FALSE, passes |-> 0, fb |-> fb, bps |-> bps]

\* __check_break clearing a force-break whose condition is not met.
check_break_disarm(fb, bps, p, ls, cs) ==
    IF fb[1] /\ fb[4] /\ Len(ls) = fb[5]
    THEN [is_break |-> TRUE, passes |-> 0, fb |-> clear_force_break, bps |-> bps]
    ELSE IF fb[1] /\ fb[2] /\ Len(cs) = fb[3]
    THEN [is_break |-> TRUE, passes |-> 0, fb |-> clear_force_break, bps |-> bps]
    ELSE IF fb[1] /\ ~fb[2] /\ ~fb[4]
    THEN [is_break |-> TRUE, passes |-> 0, fb |-> clear_force_break, bps |-> bps]
    ELSE IF DOMAIN bps # {} /\ p \in DOMAIN bps
    THEN IF bps[p][2] = bps[p][1]
         THEN [is_break |-> TRUE, passes |-> bps[p][1],
               fb |-> clear_force_break,
               bps |-> [bps EXCEPT ![p] = <<bps[p][1], 1>>]]
         ELSE [is_break |-> FALSE, passes |-> 0, fb |-> clear_force_break,
               bps |-> [bps EXCEPT ![p] = <<bps[p][1], bps[p][2] + 1>>]]
    ELSE [is_break |-> FALSE, passes |-> 0, fb |-> clear_force_break,
          bps |-> bps]

\* __check_break advancing the pass counter also when it breaks.
check_break_count_on(fb, bps, p, ls, cs) ==
    IF fb[1] /\ fb[4] /\ Len(ls) = fb[5]
    THEN [is_break |-> TRUE, passes |-> 0, fb |-> clear_force_break, bps |-> bps]
    ELSE IF fb[1] /\ fb[2] /\ Len(cs) = fb[3]
    THEN [is_break |-> TRUE, passes |-> 0, fb |-> clear_force_break, bps |-> bps]
    ELSE IF fb[1] /\ ~fb[2] /\ ~fb[4]
    THEN [is_break |-> TRUE, passes |-> 0, fb |-> clear_force_break, bps |-> bps]
    ELSE IF DOMAIN bps # {} /\ p \in DOMAIN bps
    THEN IF bps[p][2] >= bps[p][1]
         THEN [is_break |-> TRUE, passes |-> bps[p][1], fb |-> fb,
               bps |-> [bps EXCEPT ![p] = <<bps[p][1], bps[p][2] + 1>>]]
         ELSE [is_break |-> FALSE, passes |-> 0, fb |-> fb,
               bps |-> [bps EXCEPT ![p] = <<bps[p][1], bps[p][2] + 1>>]]
    ELSE [is_break |-> FALSE, passes |-> 0, fb |-> fb, bps |-> bps]

\* __check_break: the returned pair (is_break, passes) and the force-break
\* and breakpoint table afterwards.
check_break(fb, bps, p, ls, cs) ==
    IF fb[1] /\ fb[4] /\ Len(ls) = fb[5]
    THEN [is_break |-> TRUE, passes |-> 0, fb |-> clear_force_break, bps |-> bps]
    ELSE IF fb[1] /\ fb[2] /\ Len(cs) = fb[3]
    THEN [is_break |-> TRUE, passes |-> 0, fb |-> clear_force_break, bps |-> bps]
    ELSE IF fb[1] /\ ~fb[2] /\ ~fb[4]
    THEN [is_break |-> TRUE, passes |-> 0, fb |-> clear_force_break, bps |-> bps]
    ELSE IF DOMAIN bps # {} /\ p \in DOMAIN bps
    THEN IF bps[p][2] = bps[p][1]
         THEN [is_break |-> TRUE, passes |-> bps[p][1], fb |-> fb,
               bps |-> [bps EXCEPT ![p] = <<bps[p][1], 1>>]]
         ELSE [is_break |-> FALSE, passes |-> 0, fb |-> fb,
               bps |-> [bps EXCEPT ![p] = <<bps[p][1], bps[p][2] + 1>>]]
    ELSE [is_break |-> FALSE, passes |-> 0, fb |-> fb, bps |-> bps]

\* reset: the stop address in force for the given optional stop_addr.
reset_stop_addr(stop, n) == IF ~Truthy(stop) THEN n - 1 ELSE Val(stop)

\* finish: the breakpoint table afterwards.  (finishFlag, which finish sets,
\* is read by step only to print a notice.)
finish(bps, p) == toggle_breakpoint(bps, p, 1)

\* ------------------------------------- registers, flags and data memory
\* A Python integer is modelled by the set of the positions of its 1 bits,
\* so that &, |, ^, << and >> are computed as Python computes them at any
\* width; of a negative integer only the sign matters to the machine, and
\* all of them are the one value Negative.
Zero == {}

One == {0}

Negative == {0 - 1}

BitAnd(a, b) == a \cap b

BitOr(a, b) == a \cup b

BitXor(a, b) == (a \ b) \cup (b \ a)

Shl(a, k) == {b + k : b \in a}

Shr(a, k) == {b - k : b \in {c \in a : c >= k}}

\* 2 ** w - 1
Mask(w) == 0..(w - 1)

\* value < 0 or value > 2 ** w - 1
OutOfRange(value, w) == value = Negative \/ \E b \in value : b >= w

\* __init__, lines 94-98
limb_width == XLEN \div LIMBS

limb_mask == Mask(limb_width)

half_limb_width == (XLEN \div LIMBS) \div 2

half_limb_mask == Mask(half_limb_width)

xlen_mask == Mask(XLEN)

\* The checks: TRUE when the argument passes.
check_reg_idx(idx) == ~(idx < 0 \/ idx > NUM_REGS - 1)

check_reg_val_any(value) == value # Negative

check_reg_val(value) == ~OutOfRange(value, XLEN)

check_limb_val(value) == ~OutOfRange(value, limb_width)

check_half_limb_val(value) == ~OutOfRange(value, half_limb_width)

check_limb_idx(idx) == ~(idx < 0 \/ idx >= LIMBS)

check_dmem_addr(addr) == ~(addr < 0 \/ addr >= DMEM_DEPTH)

\* __get_limb_from_reg_val, once its checks have passed.
get_limb_from_reg_val(lidx, regval) ==
    BitAnd(Shr(regval, lidx * limb_width), limb_mask)

\* __mod_limb_in_reg_val, once its checks have passed.
mod_limb_in_reg_val(lidx, regval, limbval) ==
    LET mask        == Shl(half_limb_mask, lidx * limb_width)
        masked_reg  == BitOr(regval, mask)
        masked_reg2 == BitXor(masked_reg, mask)
    IN BitOr(masked_reg2, Shl(limbval, lidx * limb_width))

\* __mod_half_limb_in_reg_val, once its checks have passed; upper is 0 or 1.
mod_half_limb_in_reg_val(lidx, regval, halflimbval, upper) ==
    LET mask        == Shl(half_limb_mask, (lidx * 2 + upper) * half_limb_width)
        masked_reg  == BitOr(regval, mask)
        masked_reg2 == BitXor(masked_reg, mask)
    IN BitOr(masked_reg2, Shl(halflimbval, (lidx * 2 + upper) * half_limb_width))

\* __test_bit
test_bit(testval, pos) == BitAnd(testval, Shl(One, pos)) # Zero

\* A Python list of fixed length whose items are integers (or lists of
\* booleans, as sets of slots) is the function from the indices of its
\* non-zero (non-empty) items to these items: Item reads an item, Store
\* assigns one.
Item(list, i) == IF i \in DOMAIN list THEN list[i] ELSE Zero

Store(list, i, v) ==
    IF v = Zero
    THEN [j \in DOMAIN list \ {i} |-> list[j]]
    ELSE [j \in DOMAIN list \cup {i} |-> IF j = i THEN v ELSE list[j]]

\* A register reference: an int (a general register index) or a str (a
\* special register name).
IntRef(i) == [int |-> TRUE, idx |-> i, name |-> ""]

StrRef(s) == [int |-> FALSE, idx |-> 0, name |-> s]

SpecialNames == {"mod", "dmp", "rfp", "lc", "rnd"}

\* get_reg: the error raised ("" when none) and the value returned.
get_reg(rr, ss, ridx) ==
    IF ridx.int
    THEN IF ~check_reg_idx(ridx.idx)
         THEN [err |-> "IndexError", val |-> Zero]
         ELSE [err |-> "", val |-> Item(rr, ridx.idx)]
    ELSE IF ridx.name \in SpecialNames
         THEN [err |-> "", val |-> ss[ridx.name]]
         ELSE [err |-> "Exception", val |-> Zero]

\* A Python list index into r_valid_half_limbs: negative indices count from
\* the end, and the index is in range when it is in [-NUM_REGS, NUM_REGS-1].
ListIndex(idx) == IF idx < 0 THEN idx + NUM_REGS ELSE idx

\* [b] * LIMBS * 2: a list of 16 booleans, as the set of the slots that hold
\* True.
AllSlots(b) == IF b THEN 0..(2 * LIMBS - 1) ELSE {}

\* set_reg, lines 253-259: the validity bitmap of the register after the
\* update the hints select.
set_reg_valid(bitmap, valid_limb, valid_half_limb) ==
    IF Truthy(valid_limb)
    THEN bitmap \cup {Val(valid_limb) * 2, Val(valid_limb) * 2 + 1}
    ELSE IF Truthy(valid_half_limb)
    THEN bitmap \cup {Val(valid_half_limb)}
    ELSE AllSlots(TRUE)

\* set_reg: the error raised ("" when none) and the registers and validity
\* bitmaps afterwards.  The bitmap is written before the index is checked.
set_reg(rr, ss, vv, ridx, value, valid_limb, valid_half_limb) ==
    IF ~check_reg_val(value)
    THEN [err |-> "OverflowError", r |-> rr, sreg |-> ss, valid |-> vv]
    ELSE IF ridx.int
    THEN IF ridx.idx < 0 - NUM_REGS \/ ridx.idx > NUM_REGS - 1
         THEN [err |-> "IndexError", r |-> rr, sreg |-> ss, valid |-> vv]
         ELSE LET k  == ListIndex(ridx.idx)
                  v2 == Store(vv, k, set_reg_valid(Item(vv, k), valid_limb,
                                                   valid_half_limb))
              IN IF ~check_reg_idx(ridx.idx)
                 THEN [err |-> "IndexError", r |-> rr, sreg |-> ss, valid |-> v2]
                 ELSE [err |-> "", r |-> Store(rr, ridx.idx, value),
                       sreg |-> ss, valid |-> v2]
    ELSE IF ridx.name \in SpecialNames
         THEN [err |-> "", r |-> rr, sreg |-> [ss EXCEPT ![ridx.name] = value],
               valid |-> vv]
         ELSE [err |-> "Exception", r |-> rr, sreg |-> ss, valid |-> vv]

\* set_reg_limb: get_reg, __mod_limb_in_reg_val with its checks, set_reg with
\* the limb index as hint.
set_reg_limb(rr, ss, vv, ridx, lidx, value) ==
    LET g == get_reg(rr, ss, ridx) IN
    IF g.err # ""
    THEN [err |-> g.err, r |-> rr, sreg |-> ss, valid |-> vv]
    ELSE IF ~check_limb_idx(lidx)
    THEN [err |-> "IndexError", r |-> rr, sreg |-> ss, valid |-> vv]
    ELSE IF ~check_reg_val(g.val) \/ ~check_limb_val(value)
    THEN [err |-> "OverflowError", r |-> rr, sreg |-> ss, valid |-> vv]
    ELSE set_reg(rr, ss, vv, ridx, mod_limb_in_reg_val(lidx, g.val, value),
                 Some(lidx), None)

\* set_reg_half_limb: as set_reg_limb, with __mod_half_limb_in_reg_val and no
\* hint.
set_reg_half_limb(rr, ss, vv, ridx, lidx, value, upper) ==
    LET g == get_reg(rr, ss, ridx) IN
    IF g.err # ""
    THEN [err |-> g.err, r |-> rr, sreg |-> ss, valid |-> vv]
    ELSE IF ~check_limb_idx(lidx)
    THEN [err |-> "IndexError", r |-> rr, sreg |-> ss, valid |-> vv]
    ELSE IF ~check_reg_val(g.val) \/ ~check_half_limb_val(value)
    THEN [err |-> "OverflowError", r |-> rr, sreg |-> ss, valid |-> vv]
    ELSE set_reg(rr, ss, vv, ridx,
                 mod_half_limb_in_reg_val(lidx, g.val, value, upper),
                 None, None)

\* get_reg_limb: the error raised and the limb returned.
get_reg_limb(rr, ss, ridx, lidx) ==
    LET g == get_reg(rr, ss, ridx) IN
    IF g.err # "" THEN g
    ELSE IF ~check_limb_idx(lidx) THEN [err |-> "IndexError", val |-> Zero]
    ELSE IF ~check_reg_val(g.val) THEN [err |-> "OverflowError", val |-> Zero]
    ELSE [err |-> "", val |-> get_limb_from_reg_val(lidx, g.val)]

\* The flags after set_z_m_l / setx_z_m_l and set_c_z_m_l / setx_c_z_m_l.
set_z_m_l(ff, val) ==
    [ff EXCEPT !.Z = ~(BitAnd(val, xlen_mask) # Zero),
               !.M = test_bit(val, XLEN - 1),
               !.L = test_bit(val, 0)]

setx_z_m_l(ff, val) ==
    [ff EXCEPT !.XZ = ~(BitAnd(val, xlen_mask) # Zero),
               !.XM = test_bit(val, XLEN - 1),
               !.XL = test_bit(val, 0)]

set_c_z_m_l_top(ff, val) ==
    [set_z_m_l(ff, val) EXCEPT !.C = test_bit(val, XLEN - 1)]

set_c_z_m_l(ff, val) == [set_z_m_l(ff, val) EXCEPT !.C = test_bit(val, XLEN)]

setx_c_z_m_l(ff, val) == [setx_z_m_l(ff, val) EXCEPT !.XC = test_bit(val, XLEN)]

\* get_dmem: the error raised and the value returned; nothing is changed.
get_dmem(dm, address) ==
    IF ~check_dmem_addr(address) THEN [err |-> "IndexError", val |-> Zero]
    ELSE [err |-> "", val |-> Item(dm, address)]

set_dmem_unmarked(dm, im, address, value) ==
    IF ~check_dmem_addr(address)
    THEN [err |-> "IndexError", dmem |-> dm, init |-> im]
    ELSE IF ~check_reg_val(value)
    THEN [err |-> "OverflowError", dmem |-> dm, init |-> im]
    ELSE [err |-> "", dmem |-> Store(dm, address, value), init |-> im]

\* set_dmem: the error raised, and the memory and its marks afterwards.
set_dmem(dm, im, address, value) ==
    IF ~check_dmem_addr(address)
    THEN [err |-> "IndexError", dmem |-> dm, init |-> im]
    ELSE IF ~check_reg_val(value)
    THEN [err |-> "OverflowError", dmem |-> dm, init |-> im]
    ELSE [err |-> "", dmem |-> Store(dm, address, value),
          init |-> im \cup {address}]

\* reset, lines 110-117: the flags.
reset_flags ==
    [M |-> FALSE, L |-> FALSE, Z |-> FALSE, C |-> FALSE,
     XM |-> FALSE, XL |-> FALSE, XC |-> FALSE, XZ |-> FALSE]

\* clear_regs: the special and the general registers.
clear_regs_sreg ==
    [n \in SpecialNames |-> IF n = "rnd" THEN One ELSE Zero]

clear_regs_r == [i \in {} |-> Zero]

\* reset, line 120: the validity bitmaps.
reset_valid == [i \in {} |-> AllSlots(FALSE)]

\* reset, lines 121-133: the data memory and its marks for the sequence d of
\* supplied values (of at most DMEM_DEPTH values).
reset_dmem(d) ==
    [a \in {b \in 0..(Len(d) - 1) : d[b + 1] # Zero} |-> d[a + 1]]

reset_init_dmem(d) == {a \in 0..(DMEM_DEPTH - 1) : a < Len(d)}

\* ------------------------------------------------ the executed instruction
\* What one execution of an instruction may do: leave the stacks alone,
\* push one of the loop frames rp.frames (up to the depth rp.ldepth), pop the
\* loop stack, push the return address pc + 1 (up to the depth rp.cdepth), or
\* return (pop_call_stack, and finish() when the call stack is empty, which
\* the programs with rp.finish do); and the jump address it returns, one of
\* rp.jumps.

Effect(k, f, a, j) == [kind |-> k, frame |-> f, addr |-> a, jump |-> j]

Effects(rp, p, n, ls, cs) ==
    {Effect("nop", <<0, 0, 0>>, 0, j) : j \in rp.jumps}
    \cup {Effect("loop", f, 0, j) :
             f \in IF Len(ls) < rp.ldepth THEN rp.frames ELSE {},
             j \in rp.jumps}
    \cup {Effect("loopend", <<0, 0, 0>>, 0, j) :
             j \in IF Len(ls) > 0 THEN rp.jumps ELSE {}}
    \cup {Effect("call", <<0, 0, 0>>, a, j) :
             a \in IF Len(cs) < rp.cdepth /\ p + 1 < n THEN {p + 1} ELSE {},
             j \in rp.jumps}
    \cup {Effect("ret", <<0, 0, 0>>, 0, j) :
             j \in IF Len(cs) > 0 \/ rp.finish THEN rp.jumps ELSE {}}

\* The instructions of the programs of n instructions that are run: every
\* loop frame the bounds allow and every jump address, -1 and n being out of
\* range.
AnyProgram(n) ==
    [frames |-> (0..MaxLoopCnt) \X (0..(n - 1)) \X (0..(n - 1)),
     jumps  |-> {None} \cup {Some(j) : j \in (0 - 1)..n},
     ldepth |-> MaxLoopDepth, cdepth |-> MaxCallDepth, finish |-> TRUE,
     track  |-> FALSE]

\* The instructions of the programs run under the whole debugger: one loop
\* frame shape, the jump addresses that are in range, and no return on an
\* empty call stack.
PlainProgram(n) ==
    [frames |-> {<<0, n - 1, 0>>},
     jumps  |-> {None} \cup {Some(j) : j \in 0..(n - 1)},
     ldepth |-> MaxDebugDepth, cdepth |-> MaxDebugDepth, finish |-> FALSE,
     track  |-> FALSE]

\* The instructions at p of the programs in which a loop is followed: the
\* loop frames <<N, end, start>> whose body starts at the next instruction,
\* start = p + 1 <= end; no jump address or the jump to the last
\* instruction; and no call.
LoopProgram(n, p) ==
    [frames |-> {f \in (0..MaxLoopCnt) \X (0..(n - 1)) \X (0..(n - 1)) :
                    f[3] = p + 1 /\ f[3] <= f[2]},
     jumps  |-> {None, Some(n - 1)},
     ldepth |-> MaxLoopDepth, cdepth |-> 0, finish |-> FALSE,
     track  |-> TRUE]

\* instr.execute(self): the machine state the instruction leaves behind.
execute(e, p, ls, cs, bps) ==
    [ls  |-> IF e.kind = "loop"
             THEN push_loop_stack(ls, e.frame[1], e.frame[2], e.frame[3])
             ELSE IF e.kind = "loopend" THEN pop_loop_stack(ls) ELSE ls,
     cs  |-> IF e.kind = "call" THEN push_call_stack(cs, e.addr)
             ELSE IF e.kind = "ret" /\ Len(cs) > 0 THEN pop_call_stack(cs)
             ELSE cs,
     bps |-> IF e.kind = "ret" /\ Len(cs) = 0 THEN finish(bps, p) ELSE bps]

\* The instruction behaviour e, fetched at p, calls finish(): a return with
\* an empty call stack.
finishes(e, p, n, cs) ==
    check_imem_addr(p, n) /\ e.kind = "ret" /\ Len(cs) = 0

\* ------------------------------------------------------------------- step
\* loop_epilogue without the jump back: the count is decremented but the
\* body is not repeated.
loop_epilogue_once(ls, p, jump_addr) ==
    IF Len(ls) # 0 /\ p = get_top_loop_end_addr(ls)
    THEN LET d == dec_top_loop_cnt(ls) IN
         IF d.ret
         THEN [ls |-> d.ls, jump |-> jump_addr, epi |-> "loop"]
         ELSE [ls |-> pop_loop_stack(ls), jump |-> jump_addr, epi |-> "pop"]
    ELSE [ls |-> ls, jump |-> jump_addr, epi |-> "none"]

\* step, lines 785-790: the loop epilogue on the loop stack the instruction
\* left, with the jump address the instruction returned.
loop_epilogue(ls, p, jump_addr) ==
    IF Len(ls) # 0 /\ p = get_top_loop_end_addr(ls)
    THEN LET d == dec_top_loop_cnt(ls) IN
         IF d.ret
         THEN [ls |-> d.ls, jump |-> Some(get_top_loop_start_addr(d.ls)),
               epi |-> "loop"]
         ELSE [ls |-> pop_loop_stack(ls), jump |-> jump_addr, epi |-> "pop"]
    ELSE [ls |-> ls, jump |-> jump_addr, epi |-> "none"]

\* control_transfer without inc_pc: the program counter is never advanced.
control_transfer_no_inc(p, jump_addr, n) ==
    IF Truthy(jump_addr)
    THEN IF Val(jump_addr) < 0 \/ Val(jump_addr) >= n
         THEN [err |-> TRUE, pc |-> p, cont |-> FALSE]
         ELSE [err |-> FALSE, pc |-> Val(jump_addr), cont |-> TRUE]
    ELSE IF p + 1 >= n
         THEN [err |-> FALSE, pc |-> p, cont |-> FALSE]
         ELSE [err |-> FALSE, pc |-> p, cont |-> TRUE]

\* control_transfer with the upper bound of the jump check off by one.
control_transfer_lax(p, jump_addr, n) ==
    IF Truthy(jump_addr)
    THEN IF Val(jump_addr) < 0 \/ Val(jump_addr) > n
         THEN [err |-> TRUE, pc |-> p, cont |-> FALSE]
         ELSE [err |-> FALSE, pc |-> Val(jump_addr), cont |-> TRUE]
    ELSE IF p + 1 >= n
         THEN [err |-> FALSE, pc |-> p, cont |-> FALSE]
         ELSE [err |-> FALSE, pc |-> p + 1, cont |-> TRUE]

\* step, lines 792-802: the program counter afterwards, the continue signal,
\* and whether the step raised.
control_transfer(p, jump_addr, n) ==
    IF Truthy(jump_addr)
    THEN IF Val(jump_addr) < 0 \/ Val(jump_addr) >= n
         THEN [err |-> TRUE, pc |-> p, cont |-> FALSE]
         ELSE [err |-> FALSE, pc |-> Val(jump_addr), cont |-> TRUE]
    ELSE IF p + 1 >= n
         THEN [err |-> FALSE, pc |-> p, cont |-> FALSE]
         ELSE [err |-> FALSE, pc |-> p + 1, cont |-> TRUE]

\* step_exec with the breakpoint table read: a step at an address that
\* carries a breakpoint returns continue = true.
step_exec_break_cont(h, e, p, n, ls, cs, bps) ==
    IF ~check_imem_addr(p, n)
    THEN [ret |-> "error", pc |-> p, ls |-> ls, cs |-> cs, bps |-> bps,
          epi |-> "none", els |-> ls]
    ELSE LET x  == execute(e, p, ls, cs, bps)
             ep == loop_epilogue(x.ls, p, e.jump)
             ct == control_transfer(p, ep.jump, n)
         IN [ret |-> IF ct.err THEN "error"
                     ELSE IF p \in DOMAIN bps THEN "cont"
                     ELSE IF h THEN "stop"
                     ELSE IF ct.cont THEN "cont" ELSE "stop",
             pc  |-> ct.pc, ls |-> ep.ls, cs |-> x.cs, bps |-> x.bps,
             epi |-> ep.epi, els |-> x.ls]

\* step, lines 781-807: fetch, execute, loop epilogue, control transfer and
\* the returned continue signal, for the instruction behaviour e.
step_exec(h, e, p, n, ls, cs, bps) ==
    IF ~check_imem_addr(p, n)
    THEN [ret |-> "error", pc |-> p, ls |-> ls, cs |-> cs, bps |-> bps,
          epi |-> "none", els |-> ls]
    ELSE LET x  == execute(e, p, ls, cs, bps)
             ep == loop_epilogue(x.ls, p, e.jump)
             ct == control_transfer(p, ep.jump, n)
         IN [ret |-> IF ct.err THEN "error"
                     ELSE IF h THEN "stop"
                     ELSE IF ct.cont THEN "cont" ELSE "stop",
             pc  |-> ct.pc, ls |-> ep.ls, cs |-> x.cs, bps |-> x.bps,
             epi |-> ep.epi, els |-> x.ls]

\* ---------------------------------------------------------------- history
\* The record kept of the last operation: op names it; for a step, cmd is
\* the debugger command that resumed it ("" when it did not break), ret
\* what it returned ("cont", "stop", "error" when it raised, "" while it is
\* suspended), brk why it broke, jump the jump address the instruction
\* returned, epi what the loop epilogue did, els the loop stack the
\* instruction left, fin whether the instruction called finish(); for a
\* toggle, addr and passes are its arguments.
Last(op, cmd, ret, brk, jump, epi, els, addr, passes) ==
    [op |-> op, cmd |-> cmd, ret |-> ret, brk |-> brk, jump |-> jump,
     epi |-> epi, els |-> els, addr |-> addr, passes |-> passes,
     fin |-> FALSE]

NoLast(op, brk) == Last(op, "", "", brk, None, "none", << >>, 0, 0)

\* The force-break fb triggers at a step that starts with these stacks.
ForceMet(fb, ls, cs) ==
    fb[1] /\ (\/ fb[4] /\ Len(ls) = fb[5]
              \/ fb[2] /\ Len(cs) = fb[3]
              \/ ~fb[2] /\ ~fb[4])

\* What the caller of __check_break sees: (True, 0) is a force-break,
\* (True, passes) a breakpoint.
BreakKind(cb) ==
    IF ~cb.is_break THEN "none" ELSE IF cb.passes = 0 THEN "force" ELSE "bp"

\* since, once a step that starts at p has evaluated its breaks.
SinceAfterCheck(s, fb, p, ls, cs, brk) ==
    IF ~ForceMet(fb, ls, cs) /\ p \in DOMAIN s
    THEN [s EXCEPT ![p] = IF brk = "bp" THEN 0 ELSE Min(s[p] + 1, MaxPasses + 1)]
    ELSE s

\* since, once the table has become bps.
SinceAfterToggle(s, bps) ==
    [a \in DOMAIN bps |-> IF a \in DOMAIN s THEN s[a] ELSE 0]

\* run, at a reset: the stop address given, whether the run starts at 0 with
\* the last instruction as stop address, and no step call yet.
RunAtReset(n, s, stop) ==
    [plain |-> s = 0 /\ stop \in {None, Some(n - 1)}, k |-> 0, stop |-> stop]

\* run, after a step: the run stays plain while no breakpoint or force-break
\* is set and the instruction returns no jump address and leaves the loop
\* stack alone; k counts its step calls.
RunAfterStep(rn, bps, fb, e) ==
    IF rn.plain /\ DOMAIN bps = {} /\ ~fb[1] /\ e.jump = None
              /\ e.kind \notin {"loop", "loopend"}
    THEN [rn EXCEPT !.k = Min(rn.k + 1, MaxImem + 1)]
    ELSE [rn EXCEPT !.plain = FALSE, !.k = 0]

\* track follows one loop: on while the loop is followed, with the frame
\* <<N, end, start>> that was pushed, the depth of the loop stack before
\* the push and ends, the number of times the instruction at end has been
\* executed; done once the step at end has popped the frame, and lost when
\* a step started outside [start, end] while the loop was followed.
NoTrack ==
    [on |-> FALSE, N |-> 0, end |-> 0, start |-> 0, depth |-> 0, ends |-> 0,
     done |-> FALSE, lost |-> FALSE]

\* track, after the step that executed the instruction behaviour e at p on
\* the loop stack ls and gave st.  A loop is followed from the step whose
\* instruction, at start - 1, pushes <<N, end, start>> with
\* 1 <= start <= end and returns no jump address, as long as the
\* instructions executed return no jump address and leave the stacks alone.
TrackAfterStep(t, e, p, n, ls, st) ==
    IF ~check_imem_addr(p, n) THEN NoTrack
    ELSE IF /\ e.kind = "loop" /\ e.jump = None /\ st.ret # "error"
            /\ e.frame[3] = p + 1 /\ 1 <= e.frame[3] /\ e.frame[3] <= e.frame[2]
    THEN [on |-> TRUE, N |-> e.frame[1], end |-> e.frame[2],
          start |-> e.frame[3], depth |-> Len(ls), ends |-> 0,
          done |-> FALSE, lost |-> FALSE]
    ELSE IF ~t.on \/ t.done \/ t.lost THEN NoTrack
    ELSE IF e.kind # "nop" \/ e.jump # None THEN NoTrack
    ELSE IF p < t.start \/ p > t.end THEN [t EXCEPT !.lost = TRUE]
    ELSE [t EXCEPT !.ends = IF p = t.end THEN Min(@ + 1, t.N + 2) ELSE @,
                   !.done = p = t.end /\ st.epi = "pop"
                            /\ Len(st.ls) = t.depth]

\* hist: op names the last register, flag, memory or stack operation (or
\* "reset"); ref, addr, val, limb, half and frame are its arguments; ret is
\* the error it raised ("" when none) or the boolean it returned, out the
\* value it returned; clear is the clear_regs a reset was given.  supplied
\* is the data memory the last reset was given, written the addresses
\* set_dmem has written since; pending the addresses
\* pushed on the call stack and not yet popped.  pops is the number of
\* pop_call_stack calls that returned, in a row up to now; n0 is the count
\* of the frame push_loop_stack pushed when only dec_top_loop_cnt calls
\* have followed it (None otherwise), and trues how many of them returned
\* True.
HistOp(h, op, ret) ==
    [h EXCEPT !.op = op, !.ret = ret, !.ref = StrRef(""), !.addr = 0,
              !.val = Zero, !.limb = None, !.half = None,
              !.frame = <<0, 0, 0>>, !.out = Zero, !.clear = FALSE,
              !.pops = 0, !.n0 = None, !.trues = 0]

HistAtReset(d, clear) ==
    [op |-> "reset", ret |-> "", ref |-> StrRef(""), addr |-> 0, val |-> Zero,
     limb |-> None, half |-> None, frame |-> <<0, 0, 0>>, out |-> Zero,
     supplied |-> d, clear |-> clear, written |-> {}, pending |-> << >>,
     pops |-> 0, n0 |-> None, trues |-> 0]

\* ---------------------------------------------------------------- actions
\* The stop addresses given to the constructor and to reset: none, or any
\* address (of which a program of n instructions takes those in [0, n-1]).
StopOpts == {None} \cup {Some(a) : a \in 0..(MaxImem - 1)}

NoStop == {None}

NoDmem == {<< >>}

\* No second instance; and a second instance as its constructor leaves it:
\* no attribute named breakpoints or force_break of its own, so that both
\* names are looked up on the class.
NoOther == [made |-> FALSE, force_break |-> None]

NewOther == [made |-> TRUE, force_break |-> None]

\* self.breakpoints and self.force_break on the second instance.
other_breakpoints == breakpoints

other_force_break ==
    IF other.force_break = None THEN clear_force_break
    ELSE Val(other.force_break)

\* The lengths of the programs given to the constructor and to reset.
ProgramLens == 1..MaxImem

\* Machine(dmem, imem, s_addr, stop_addr): a program of n instructions (n
\* among lens), with a stop address among stops and initial data memory
\* contents among dmems; the constructor resets with clear_regs=True.
Construct(stops, dmems, lens) ==
    \E n \in lens, d \in dmems :
      \E s \in 0..(n - 1), stop \in {o \in stops : o \subseteq 0..(n - 1)} :
        /\ flags = reset_flags
        /\ r = clear_regs_r
        /\ sreg = clear_regs_sreg
        /\ r_valid_half_limbs = reset_valid
        /\ dmem = reset_dmem(d)
        /\ init_dmem = reset_init_dmem(d)
        /\ hist = HistAtReset(d, TRUE)
        /\ imemLen = n
        /\ pc = s
        /\ stop_addr = reset_stop_addr(stop, n)
        /\ loop_stack = << >>
        /\ call_stack = << >>
        /\ breakpoints = [a \in {} |-> <<0, 0>>]
        /\ force_break = clear_force_break
        /\ mode = "idle"
        /\ halt = FALSE
        /\ last = NoLast("init", "none")
        /\ run = RunAtReset(n, s, stop)
        /\ since = [a \in {} |-> 0]
        /\ other = NoOther
        /\ track = NoTrack

Init == Construct(StopOpts, NoDmem, ProgramLens)

\* reset(dmem, imem, s_addr, stop_addr, clear_regs)
Reset(stops, dmems, clears, lens) ==
    /\ mode = "idle"
    /\ \E n \in lens :
         \E s \in 0..(n - 1), stop \in {o \in stops : o \subseteq 0..(n - 1)} :
           /\ imemLen' = n
           /\ pc' = s
           /\ stop_addr' = reset_stop_addr(stop, n)
           /\ run' = RunAtReset(n, s, stop)
    /\ \E d \in dmems, clear \in clears :
           /\ flags' = reset_flags
           /\ r' = IF clear THEN clear_regs_r ELSE r
           /\ sreg' = IF clear THEN clear_regs_sreg ELSE sreg
           /\ r_valid_half_limbs' = reset_valid
           /\ dmem' = reset_dmem(d)
           /\ init_dmem' = reset_init_dmem(d)
           /\ hist' = HistAtReset(d, clear)
    /\ loop_stack' = << >>
    /\ call_stack' = << >>
    /\ last' = NoLast("reset", "none")
    /\ track' = NoTrack
    /\ UNCHANGED <<breakpoints, force_break, mode, halt, since, other>>

\* The addresses given to toggle_breakpoint: those of the program, or the
\* last address of the longest program and the addresses around the ends of
\* range(0, IMEM_DEPTH).
ProgramAddrs == 0..(MaxImem - 1)

ToggleAddrs == {0 - 1, MaxImem - 1, IMEM_DEPTH - 1, IMEM_DEPTH}

Toggle(op, addr, passes, brk) ==
    /\ addr \in DOMAIN breakpoints \/ Cardinality(DOMAIN breakpoints) < MaxBps
    /\ breakpoints' = toggle_breakpoint(breakpoints, addr, passes)
    /\ since' = SinceAfterToggle(since, breakpoints')
    /\ last' = Last(op, "", "", brk, None, "none", << >>, addr, passes)
    /\ UNCHANGED <<pc, imemLen, stop_addr, loop_stack, call_stack, force_break,
                   mode, halt, run, data, hist, other, track>>

\* toggle_breakpoint(addr, passes), called by the driver between steps.
ToggleBreakpoint(addrs, maxp) ==
    /\ mode = "idle"
    /\ \E addr \in addrs, passes \in 1..maxp :
         Toggle("toggle", addr, passes, "none")

\* The rest of a step call from line 781 on, with local halt h, force-break
\* fb and breakpoint table bps, after the break evaluation gave brk and the
\* debugger command cmd (if any) resumed the call, for an instruction of the
\* programs rp.
Execute(rp, h, fb, bps, s, brk, cmd) ==
    \E e \in Effects(rp, pc, imemLen, loop_stack, call_stack) :
      LET st == step_exec(h, e, pc, imemLen, loop_stack, call_stack, bps) IN
        /\ pc' = st.pc
        /\ loop_stack' = st.ls
        /\ call_stack' = st.cs
        /\ breakpoints' = st.bps
        /\ force_break' = fb
        /\ mode' = "idle"
        /\ halt' = FALSE
        /\ since' = SinceAfterToggle(s, st.bps)
        /\ run' = RunAfterStep(run, breakpoints, force_break, e)
        /\ last' = [Last("step", cmd, st.ret, brk, e.jump, st.epi, st.els, 0, 0)
                      EXCEPT !.fin = finishes(e, pc, imemLen, call_stack)]
        /\ track' = IF rp.track
                     THEN TrackAfterStep(track, e, pc, imemLen, loop_stack, st)
                     ELSE track
        /\ UNCHANGED <<imemLen, stop_addr, data, hist, other>>

\* step(), when __check_break reports no break: the whole call.
StepRun(rp) ==
    /\ mode = "idle"
    /\ LET cb == check_break(force_break, breakpoints, pc, loop_stack, call_stack) IN
         /\ ~cb.is_break
         /\ Execute(rp, pc = stop_addr, cb.fb, cb.bps,
                    SinceAfterCheck(since, force_break, pc, loop_stack,
                                    call_stack, "none"),
                    "none", "")

\* step(), when __check_break reports a break: the call is suspended in
\* __handle_break_command until a command resumes it.
StepBreak ==
    /\ mode = "idle"
    /\ LET cb == check_break(force_break, breakpoints, pc, loop_stack, call_stack) IN
         /\ cb.is_break
         /\ breakpoints' = cb.bps
         /\ force_break' = cb.fb
         /\ since' = SinceAfterCheck(since, force_break, pc, loop_stack,
                                     call_stack, BreakKind(cb))
         /\ last' = NoLast("break", BreakKind(cb))
    /\ mode' = "broken"
    /\ halt' = (pc = stop_addr)
    /\ run' = [run EXCEPT !.plain = FALSE, !.k = 0]
    /\ UNCHANGED <<pc, imemLen, stop_addr, loop_stack, call_stack, data, hist, other, track>>

\* Command b: toggle a breakpoint and stay in the command loop.
CmdBreakpoint(addrs, maxp) ==
    /\ mode = "broken"
    /\ \E addr \in addrs, passes \in 1..maxp :
         Toggle("cmd_b", addr, passes, last.brk)

\* Command c: continue.
CmdContinue(rp) ==
    /\ mode = "broken"
    /\ Execute(rp, halt, force_break, breakpoints, since, last.brk, "c")

\* Command s: step into.
CmdStep(rp) ==
    /\ mode = "broken"
    /\ Execute(rp, halt, set_force_break(FALSE, 0, FALSE, 0), breakpoints,
               since, last.brk, "s")

\* Command n: step over.
CmdNext(rp) ==
    /\ mode = "broken"
    /\ Execute(rp, halt, set_force_break(TRUE, Len(call_stack), FALSE, 0),
               breakpoints, since, last.brk, "n")

\* Command ol: step out of loop (refused on an empty loop stack).
CmdOutLoop(rp) ==
    /\ mode = "broken"
    /\ ~(Len(loop_stack) <= 0)
    /\ Execute(rp, halt, set_force_break(FALSE, 0, TRUE, Len(loop_stack) - 1),
               breakpoints, since, last.brk, "ol")

\* Command o: step out (refused on an empty call stack).
CmdOut(rp) ==
    /\ mode = "broken"
    /\ ~(Len(call_stack) <= 0)
    /\ Execute(rp, halt, set_force_break(TRUE, Len(call_stack) - 1, FALSE, 0),
               breakpoints, since, last.brk, "o")

\* Command q: exit().
CmdQuit ==
    /\ mode = "broken"
    /\ mode' = "exited"
    /\ last' = NoLast("quit", last.brk)
    /\ UNCHANGED <<pc, imemLen, stop_addr, loop_stack, call_stack, breakpoints,
                   force_break, halt, run, since, data, hist, other, track>>

\* Every program, under breakpoints with one pass that are continued or quit.
Next ==
    \/ Reset(StopOpts, NoDmem, {TRUE}, ProgramLens)
    \/ ToggleBreakpoint(ProgramAddrs, 1)
    \/ StepRun(AnyProgram(imemLen))
    \/ StepBreak
    \/ CmdContinue(AnyProgram(imemLen))
    \/ CmdQuit

Spec == Init /\ [][Next]_vars

\* The whole debugger, over plain programs without a configured stop address.
NextDebug ==
    \/ Reset(NoStop, NoDmem, {TRUE}, ProgramLens)
    \/ ToggleBreakpoint(ToggleAddrs, MaxPasses)
    \/ StepRun(PlainProgram(imemLen))
    \/ StepBreak
    \/ CmdBreakpoint(ToggleAddrs, MaxPasses)
    \/ CmdContinue(PlainProgram(imemLen))
    \/ CmdStep(PlainProgram(imemLen))
    \/ CmdNext(PlainProgram(imemLen))
    \/ CmdOutLoop(PlainProgram(imemLen))
    \/ CmdOut(PlainProgram(imemLen))
    \/ CmdQuit

InitDebug == Construct(NoStop, NoDmem, ProgramLens)

SpecDebug == InitDebug /\ [][NextDebug]_vars

\* Loops under repeated stepping, without the debugger: programs long
\* enough for a loop body that is followed by another instruction.
LoopLens == {MaxLoopImem}

NextLoop ==
    \/ Reset(NoStop, NoDmem, {TRUE, FALSE}, LoopLens)
    \/ StepRun(LoopProgram(imemLen, pc))

InitLoop == Construct(NoStop, NoDmem, LoopLens)

\* The driver keeps invoking the machine: it steps it, or resets it, again
\* and again.
SpecLoop == InitLoop /\ [][NextLoop]_vars /\ WF_vars(NextLoop)

\* ------------------------------------------------------ a second instance
\* Machine(...) once more: the constructor resets the new instance and
\* assigns neither breakpoints nor force_break.
OtherConstruct ==
    /\ mode = "idle"
    /\ other' = NewOther
    /\ last' = NoLast("other_init", "none")
    /\ UNCHANGED <<pc, imemLen, stop_addr, loop_stack, call_stack, breakpoints,
                   force_break, mode, halt, run, since, data, hist, track>>

\* toggle_breakpoint(addr, passes) on the second instance: self.breakpoints
\* is the dictionary of the class, changed in place.
OtherToggle(addrs, maxp) ==
    /\ mode = "idle"
    /\ other.made
    /\ \E addr \in addrs, passes \in 1..maxp :
         Toggle("other_toggle", addr, passes, "none")

\* __set_force_break() on the second instance (its command s): the
\* assignment gives the instance a force_break of its own.
OtherSetForceBreak ==
    /\ mode = "idle"
    /\ other.made
    /\ other' = [other EXCEPT
                   !.force_break = Some(set_force_break(FALSE, 0, FALSE, 0))]
    /\ last' = NoLast("other_force", "none")
    /\ UNCHANGED <<pc, imemLen, stop_addr, loop_stack, call_stack, breakpoints,
                   force_break, mode, halt, run, since, data, hist, track>>

\* __clear_force_break() on the second instance (its __check_break, once the
\* force-break is met).
OtherClearForceBreak ==
    /\ mode = "idle"
    /\ other.made
    /\ other_force_break[1]
    /\ other' = [other EXCEPT !.force_break = Some(clear_force_break)]
    /\ last' = NoLast("other_force", "none")
    /\ UNCHANGED <<pc, imemLen, stop_addr, loop_stack, call_stack, breakpoints,
                   force_break, mode, halt, run, since, data, hist, track>>

\* The whole debugger on the first instance, and a second instance that is
\* constructed, toggles breakpoints and arms and clears its force-break
\* while the first is not inside a call.
NextTwo ==
    \/ NextDebug
    \/ OtherConstruct
    \/ OtherToggle(ToggleAddrs, MaxPasses)
    \/ OtherSetForceBreak
    \/ OtherClearForceBreak

SpecTwo == InitDebug /\ [][NextTwo]_vars

\* ------------------------------------------------ the stacks, driven directly
\* The return addresses pushed: out of range (-1 and n), every address of
\* the program while the call stack is shallower than MaxCallDepth, and one
\* address per depth (alternating through the program) above.
CallInputs(cs, n) ==
    {0 - 1, n} \cup (IF Len(cs) < MaxCallDepth THEN 0..(n - 1)
                     ELSE {Len(cs) % n})

\* The loop frames pushed: with an end or start address out of range, every
\* count up to MaxLoopCnt while the loop stack is shallower than
\* MaxLoopDepth, and the count 0 above.
LoopInputs(ls, n) ==
    {<<0, n, 0>>, <<0, 0, 0 - 1>>}
    \cup {<<c, n - 1, 0>> :
             c \in IF Len(ls) < MaxLoopDepth THEN 0..MaxLoopCnt ELSE {0}}

\* push_call_stack(address), called on a machine whose loop stack is empty.
PushCallStack ==
    /\ mode = "idle"
    /\ loop_stack = << >>
    /\ \E address \in CallInputs(call_stack, imemLen) :
         LET err == push_call_stack_err(call_stack, address, imemLen) IN
           /\ call_stack' = IF err = "" THEN push_call_stack(call_stack, address)
                            ELSE call_stack
           /\ hist' = [HistOp(hist, "push_call", err) EXCEPT
                         !.addr = address,
                         !.pending = IF err = "" THEN Append(@, address) ELSE @]
    /\ UNCHANGED <<pc, imemLen, stop_addr, loop_stack, breakpoints, force_break,
                   mode, halt, last, run, since, data, other, track>>

\* pop_call_stack()
PopCallStack ==
    /\ mode = "idle"
    /\ IF Len(call_stack) = 0
       THEN /\ hist' = HistOp(hist, "pop_call", "CallStackUnderrun")
            /\ UNCHANGED call_stack
       ELSE /\ call_stack' = pop_call_stack(call_stack)
            /\ hist' = [HistOp(hist, "pop_call", "") EXCEPT
                          !.addr = pop_call_stack_ret(call_stack),
                          !.pending = SubSeq(@, 1, Len(@) - 1),
                          !.pops = Min(hist.pops + 1, CALL_STACK_SIZE)]
    /\ UNCHANGED <<pc, imemLen, stop_addr, loop_stack, breakpoints, force_break,
                   mode, halt, last, run, since, data, other, track>>

\* push_loop_stack(cnt, end_addr, start_addr), called on a machine whose
\* call stack is empty.
PushLoopStack ==
    /\ mode = "idle"
    /\ call_stack = << >>
    /\ \E f \in LoopInputs(loop_stack, imemLen) :
         LET err == push_loop_stack_err(loop_stack, f[2], f[3], imemLen) IN
           /\ loop_stack' = IF err = ""
                            THEN push_loop_stack(loop_stack, f[1], f[2], f[3])
                            ELSE loop_stack
           /\ hist' = [HistOp(hist, "push_loop", err) EXCEPT
                         !.frame = f,
                         !.n0 = IF err = "" THEN Some(f[1]) ELSE None]
    /\ UNCHANGED <<pc, imemLen, stop_addr, call_stack, breakpoints, force_break,
                   mode, halt, last, run, since, data, other, track>>

\* pop_loop_stack()
PopLoopStack ==
    /\ mode = "idle"
    /\ IF Len(loop_stack) = 0
       THEN /\ hist' = HistOp(hist, "pop_loop", "OverflowError")
            /\ UNCHANGED loop_stack
       ELSE /\ loop_stack' = pop_loop_stack(loop_stack)
            /\ hist' = [HistOp(hist, "pop_loop", "") EXCEPT
                          !.addr = pop_loop_stack_ret(loop_stack)]
    /\ UNCHANGED <<pc, imemLen, stop_addr, call_stack, breakpoints, force_break,
                   mode, halt, last, run, since, data, other, track>>

\* dec_top_loop_cnt()
DecTopLoopCnt ==
    /\ mode = "idle"
    /\ IF Len(loop_stack) = 0
       THEN /\ hist' = HistOp(hist, "dec", "Exception")
            /\ UNCHANGED loop_stack
       ELSE LET d == dec_top_loop_cnt(loop_stack) IN
            /\ loop_stack' = d.ls
            /\ hist' = [HistOp(hist, "dec", IF d.ret THEN "True" ELSE "False")
                          EXCEPT !.n0 = hist.n0,
                                 !.trues = IF d.ret
                                           THEN Min(hist.trues + 1, MaxLoopCnt + 1)
                                           ELSE hist.trues]
    /\ UNCHANGED <<pc, imemLen, stop_addr, call_stack, breakpoints, force_break,
                   mode, halt, last, run, since, data, other, track>>

\* The stack operations, called directly on one stack at a time.
NextStacks ==
    \/ Reset(NoStop, NoDmem, {TRUE}, ProgramLens)
    \/ PushCallStack
    \/ PopCallStack
    \/ PushLoopStack
    \/ PopLoopStack
    \/ DecTopLoopCnt

InitStacks == Construct(NoStop, NoDmem, ProgramLens)

SpecStacks == InitStacks /\ [][NextStacks]_vars

\* ------------------------- registers, flags and data memory, driven directly
\* Register references: the first and the last general register, every
\* special register, and an index on either side of the range and a name
\* that is no register.
RegRefs ==
    {IntRef(0), IntRef(NUM_REGS - 1)} \cup {StrRef(n) : n \in SpecialNames}

BadRefs == {IntRef(0 - 1), IntRef(NUM_REGS), StrRef("acc")}

\* Register-sized values: 0, 1, 2^256 - 1; and 2^256 and a negative value,
\* which are out of range.
RegVals == {Zero, One, xlen_mask}

BadVals == {Shl(One, XLEN), Negative}

\* Values whose flags are computed: 0, 1, 2^255, 2^256, 2^256 - 1,
\* 2^257 - 1 and 2^257.
FlagVals ==
    {Zero, One, Shl(One, XLEN - 1), Shl(One, XLEN), xlen_mask, Mask(XLEN + 1),
     Shl(One, XLEN + 1)}

\* Data memory addresses: the first two and the last, and one on either side
\* of the range.
DmemAddrs == {0, 1, DMEM_DEPTH - 1}

BadAddrs == {0 - 1, DMEM_DEPTH}

\* The initial data memory contents given to reset: 1, 0, 1, ... up to
\* MaxDmem values.
DmemInputs ==
    {[i \in 1..k |-> IF i % 2 = 1 THEN One ELSE Zero] : k \in 0..MaxDmem}

\* The number of things that are not as clear_regs and reset leave them: the
\* registers (value or validity), the memory cells written, the flags, and
\* the entries of the stacks.
Dirty ==
    Cardinality({i \in 0..(NUM_REGS - 1) :
                    Item(r, i) # Zero
                    \/ Item(r_valid_half_limbs, i) # AllSlots(FALSE)})
    + Cardinality({n \in SpecialNames : sreg[n] # clear_regs_sreg[n]})
    + Cardinality(hist.written)
    + (IF flags # reset_flags THEN 1 ELSE 0)
    + Len(loop_stack) + Len(call_stack)

\* set_reg(ridx, value, valid_limb, valid_half_limb)
SetReg(refs, vals, limbs, halfs) ==
    /\ mode = "idle"
    /\ \E ridx \in refs, value \in vals, valid_limb \in limbs,
          valid_half_limb \in halfs :
         LET x == set_reg(r, sreg, r_valid_half_limbs, ridx, value,
                          valid_limb, valid_half_limb) IN
           /\ r' = x.r
           /\ sreg' = x.sreg
           /\ r_valid_half_limbs' = x.valid
           /\ hist' = [HistOp(hist, "set_reg", x.err) EXCEPT
                         !.ref = ridx, !.val = value, !.limb = valid_limb,
                         !.half = valid_half_limb]
    /\ UNCHANGED <<pc, imemLen, stop_addr, loop_stack, call_stack, breakpoints,
                   force_break, mode, halt, last, run, since, flags, dmem,
                   init_dmem, other, track>>

\* set_reg_limb(ridx, lidx, value)
SetRegLimb(refs, lidxs, vals) ==
    /\ mode = "idle"
    /\ \E ridx \in refs, lidx \in lidxs, value \in vals :
         LET x == set_reg_limb(r, sreg, r_valid_half_limbs, ridx, lidx, value) IN
           /\ r' = x.r
           /\ sreg' = x.sreg
           /\ r_valid_half_limbs' = x.valid
           /\ hist' = [HistOp(hist, "set_reg_limb", x.err) EXCEPT
                         !.ref = ridx, !.addr = lidx, !.val = value,
                         !.limb = Some(lidx)]
    /\ UNCHANGED <<pc, imemLen, stop_addr, loop_stack, call_stack, breakpoints,
                   force_break, mode, halt, last, run, since, flags, dmem,
                   init_dmem, other, track>>

\* set_c_z_m_l(val)
SetCZML(vals) ==
    /\ mode = "idle"
    /\ \E val \in vals :
         /\ flags' = set_c_z_m_l(flags, val)
         /\ hist' = [HistOp(hist, "set_c_z_m_l", "") EXCEPT !.val = val]
    /\ UNCHANGED <<pc, imemLen, stop_addr, loop_stack, call_stack, breakpoints,
                   force_break, mode, halt, last, run, since, r, sreg,
                   r_valid_half_limbs, dmem, init_dmem, other, track>>

\* setx_c_z_m_l(val)
SetxCZML(vals) ==
    /\ mode = "idle"
    /\ \E val \in vals :
         /\ flags' = setx_c_z_m_l(flags, val)
         /\ hist' = [HistOp(hist, "setx_c_z_m_l", "") EXCEPT !.val = val]
    /\ UNCHANGED <<pc, imemLen, stop_addr, loop_stack, call_stack, breakpoints,
                   force_break, mode, halt, last, run, since, r, sreg,
                   r_valid_half_limbs, dmem, init_dmem, other, track>>

\* get_dmem(address)
GetDmem(addrs) ==
    /\ mode = "idle"
    /\ \E address \in addrs :
         LET x == get_dmem(dmem, address) IN
           hist' = [HistOp(hist, "get_dmem", x.err) EXCEPT
                      !.addr = address, !.out = x.val]
    /\ UNCHANGED <<pc, imemLen, stop_addr, loop_stack, call_stack, breakpoints,
                   force_break, mode, halt, last, run, since, data, other, track>>

\* set_dmem(address, value)
SetDmem(addrs, vals) ==
    /\ mode = "idle"
    /\ \E address \in addrs, value \in vals :
         LET x == set_dmem(dmem, init_dmem, address, value) IN
           /\ dmem' = x.dmem
           /\ init_dmem' = x.init
           /\ hist' = [HistOp(hist, "set_dmem", x.err) EXCEPT
                         !.addr = address, !.val = value,
                         !.written = IF x.err = "" THEN @ \cup {address} ELSE @]
    /\ UNCHANGED <<pc, imemLen, stop_addr, loop_stack, call_stack, breakpoints,
                   force_break, mode, halt, last, run, since, r, sreg,
                   r_valid_half_limbs, flags, other, track>>

\* set_reg called directly, without hints, while at most MaxDirty registers
\* are changed; reset with and without clear_regs.
NextRegs ==
    \/ Reset(NoStop, NoDmem, BOOLEAN, {1})
    \/ SetReg(RegRefs \cup BadRefs, RegVals \cup BadVals, {None}, {None})
          /\ Dirty' <= MaxDirty

InitRegs == Construct(NoStop, NoDmem, {1})

SpecRegs == InitRegs /\ [][NextRegs]_vars

\* The two flag setters called directly.
NextFlags ==
    \/ Reset(NoStop, NoDmem, {TRUE}, {1})
    \/ SetCZML(FlagVals)
    \/ SetxCZML(FlagVals)

SpecFlags == InitRegs /\ [][NextFlags]_vars

\* get_dmem and set_dmem called directly, while at most MaxDirty cells are
\* written; reset with initial contents.
NextDmem ==
    \/ Reset(NoStop, DmemInputs, {TRUE}, {1})
    \/ GetDmem(DmemAddrs \cup BadAddrs)
    \/ SetDmem(DmemAddrs \cup BadAddrs, RegVals \cup BadVals) /\ Dirty' <= MaxDirty

InitDmem == Construct(NoStop, DmemInputs, {1})

SpecDmem == InitDmem /\ [][NextDmem]_vars

\* Limb indices: the first and the last, and one past the range.
LimbIdxs == {0, LIMBS - 1}

BadLimbIdxs == {LIMBS}

\* Limb values: 0 and 2^32 - 1; and 2^32, which is out of range.
LimbVals == {Zero, limb_mask}

BadLimbVals == {Shl(One, limb_width)}

\* The hints of set_reg: the first and the last limb index, the first two and
\* the last half-limb slot.
LimbHints == {Some(i) : i \in LimbIdxs}

HalfLimbHints == {Some(j) : j \in {0, 1, 2 * LIMBS - 1}}

LimbRefs == {IntRef(0), StrRef("mod")}

\* set_reg with and without a hint and set_reg_limb called directly, while
\* at most MaxDirty registers are changed.
NextLimbs ==
    \/ Reset(NoStop, NoDmem, {TRUE}, {1})
    \/ SetReg(LimbRefs, {Zero, xlen_mask}, LimbHints \cup {None}, {None})
          /\ Dirty' <= MaxDirty
    \/ SetReg(LimbRefs, {Zero, xlen_mask}, {None}, HalfLimbHints)
          /\ Dirty' <= MaxDirty
    \/ SetRegLimb(LimbRefs \cup {IntRef(NUM_REGS)}, LimbIdxs \cup BadLimbIdxs,
                  LimbVals \cup BadLimbVals) /\ Dirty' <= MaxDirty

SpecLimbs == InitRegs /\ [][NextLimbs]_vars

\* Everything reset is to clear is changed first: a general and two special
\* registers, the flags, a memory cell, the stacks.
NextReset ==
    \/ Reset(NoStop, DmemInputs, BOOLEAN, {1})
    \/ SetReg({IntRef(0), StrRef("mod"), StrRef("rnd")}, {Zero, xlen_mask},
              {None}, {None}) /\ Dirty' <= MaxDirty + 1
    \/ SetCZML({Zero, Mask(XLEN + 1)}) /\ Dirty' <= MaxDirty + 1
    \/ SetxCZML({Zero, Mask(XLEN + 1)}) /\ Dirty' <= MaxDirty + 1
    \/ SetDmem({0, DMEM_DEPTH - 1}, {xlen_mask}) /\ Dirty' <= MaxDirty + 1
    \/ PushCallStack /\ Dirty' <= MaxDirty + 1
    \/ PushLoopStack /\ Dirty' <= MaxDirty + 1

SpecReset == InitDmem /\ [][NextReset]_vars

TypeOK ==
    /\ imemLen \in 1..MaxImem \cup LoopLens
    /\ mode \in {"idle", "broken", "exited"}
    /\ Len(loop_stack) <= LOOP_STACK_SIZE
    /\ Len(call_stack) <= CALL_STACK_SIZE

\* ----------------------------------------------------------------- claims
\* A step call has returned or raised.
Stepped == last.op = "step"

\* A step call begins in this transition: it runs through (StepRun) or is
\* suspended by a break (StepBreak).
StepStarts == mode = "idle" /\ last'.op \in {"step", "break"}

\* The loop epilogue applies to the loop stack els the instruction at p left:
\* the top frame ends at p.
AtLoopEnd(els, p) == Len(els) > 0 /\ els[Len(els)][2] = p

\* C1: in a run started at pc 0 with the last instruction as stop address,
\* no breakpoint or force-break set, whose instructions return no jump
\* address and leave the loop stack alone, the k-th step call returns
\* continue = true and leaves pc = k for k < n, and the n-th step call
\* returns continue = false; and the stop address n - 1, when it is given,
\* is the one in force when none is given.
C1_PlainRun ==
    /\ \A n \in 1..MaxImem :
          /\ reset_stop_addr(Some(n - 1), n) = n - 1
          /\ reset_stop_addr(None, n) = n - 1
    /\ (run.plain /\ Stepped) =>
          /\ run.k >= 1
          /\ run.k < imemLen => (last.ret = "cont" /\ pc = run.k)
          /\ run.k = imemLen => last.ret = "stop"

\* C1 witness: a plain run of the longest program has made its n-th step
\* call.
C1_Witness ==
    /\ run.plain /\ Stepped
    /\ imemLen = MaxImem /\ run.k = imemLen /\ last.ret = "stop"

\* C2: a step call that starts at the stop address S given to the
\* constructor or to reset, and returns, returns continue = false.
C2_StopsAtConfigured ==
    [][(last'.op = "step" /\ last'.ret # "error"
          /\ run.stop # None /\ pc = Val(run.stop))
       => last'.ret = "stop"]_vars

\* C3: a step whose instruction returns a jump address T in [0, n-1] that
\* the loop epilogue does not override leaves pc = T; a step without jump
\* address, when a next instruction exists, leaves pc + 1.
C3_JumpTaken ==
    [][(last'.op = "step" /\ check_imem_addr(pc, imemLen)
          /\ ~(AtLoopEnd(last'.els, pc) /\ last'.els[Len(last'.els)][1] # 0))
       => /\ (last'.jump # None /\ Val(last'.jump) \in 0..(imemLen - 1))
                => pc' = Val(last'.jump)
          /\ (last'.jump = None /\ pc + 1 < imemLen) => pc' = pc + 1]_vars

\* C4: a step after whose instruction the top loop frame ends at pc with a
\* nonzero count decrements that count by one, keeps the frame, and leaves
\* pc at the frame's start address, whatever the instruction returned.
C4_LoopAgain ==
    [][(last'.op = "step" /\ check_imem_addr(pc, imemLen)
          /\ AtLoopEnd(last'.els, pc) /\ last'.els[Len(last'.els)][1] # 0)
       => LET els == last'.els
              top == els[Len(els)]
          IN /\ loop_stack' = [els EXCEPT ![Len(els)] = <<top[1] - 1, top[2], top[3]>>]
             /\ pc' = top[3]]_vars

\* C5: a step after whose instruction the top loop frame ends at pc with
\* count zero pops exactly that frame and leaves pc at the jump address the
\* instruction returned, else (a next instruction existing) at pc + 1.
C5_LoopDone ==
    [][(last'.op = "step" /\ last'.ret # "error"
          /\ check_imem_addr(pc, imemLen)
          /\ AtLoopEnd(last'.els, pc) /\ last'.els[Len(last'.els)][1] = 0)
       => /\ loop_stack' = SubSeq(last'.els, 1, Len(last'.els) - 1)
          /\ last'.jump # None => pc' = Val(last'.jump)
          /\ (last'.jump = None /\ pc + 1 < imemLen) => pc' = pc + 1]_vars

\* C6: pc is an address of the instruction memory in every state, and a
\* step whose resolved jump address (the instruction's, when the loop
\* epilogue does not override it) lies outside the instruction memory raises
\* and leaves pc as it was.
C6_PcInRange ==
    /\ [](pc \in 0..(imemLen - 1))
    /\ [][(last'.op = "step"
             /\ ~(AtLoopEnd(last'.els, pc) /\ last'.els[Len(last'.els)][1] # 0)
             /\ last'.jump # None /\ Val(last'.jump) \notin 0..(imemLen - 1))
          => (last'.ret = "error" /\ pc' = pc)]_vars

\* C6 witness: a step has raised on the jump address n, one past the end.
C6_Witness ==
    /\ Stepped /\ last.ret = "error" /\ last.jump = Some(imemLen)
    /\ pc \in 0..(imemLen - 1)

\* C7: at a step call that starts at a breakpointed address A whose
\* breakpoint requires P >= 1 passes, and at which no force-break triggers,
\* a break is triggered exactly when this is the P-th arrival since the
\* breakpoint was installed or last broke; the counter is then reset to 1,
\* and is incremented by one at every other arrival.
C7_EveryPthArrival ==
    [][(StepStarts /\ ~ForceMet(force_break, loop_stack, call_stack)
          /\ pc \in DOMAIN breakpoints /\ breakpoints[pc][1] >= 1)
       => LET P == breakpoints[pc][1]
              C == breakpoints[pc][2]
              k == since[pc] + 1
          IN /\ (last'.brk = "bp") <=> (k = P)
             /\ k = P => (last'.op = "break" /\ breakpoints'[pc] = <<P, 1>>)
             /\ (k # P /\ pc \in DOMAIN breakpoints')
                   => breakpoints'[pc] = <<P, C + 1>>]_vars

\* C7 witness: a breakpoint that requires two passes has triggered a break.
C7_Witness ==
    /\ last.op = "break" /\ last.brk = "bp"
    /\ pc \in DOMAIN breakpoints /\ breakpoints[pc] = <<2, 1>>

\* C8: toggle_breakpoint flips membership.  Toggling an absent address of
\* [0, IMEM_DEPTH - 1] installs it with the given passes and counter 1 and
\* changes no other entry; toggling a present address removes it and changes
\* no other entry; a step call that starts at an address that is not in the
\* table triggers no breakpoint break; and toggling an absent address twice
\* gives the table back.
C8_ToggleFlips ==
    /\ [](\A a \in ToggleAddrs \ DOMAIN breakpoints : \A p, q \in 1..MaxPasses :
            toggle_breakpoint(toggle_breakpoint(breakpoints, a, p), a, q)
               = breakpoints)
    /\ [][/\ last'.op \in {"toggle", "cmd_b"} =>
               LET a == last'.addr
                   D == DOMAIN breakpoints
               IN /\ a \in D =>
                       /\ DOMAIN breakpoints' = D \ {a}
                       /\ \A b \in D \ {a} : breakpoints'[b] = breakpoints[b]
                  /\ (a \notin D /\ a \in 0..(IMEM_DEPTH - 1)) =>
                       /\ DOMAIN breakpoints' = D \cup {a}
                       /\ breakpoints'[a] = <<last'.passes, 1>>
                       /\ \A b \in D : breakpoints'[b] = breakpoints[b]
          /\ (StepStarts /\ pc \notin DOMAIN breakpoints) => last'.brk # "bp"
         ]_vars

\* C8 witness: the last address of range(0, IMEM_DEPTH) has been installed
\* with two passes by a toggle.
C8_Witness ==
    /\ last.op \in {"toggle", "cmd_b"} /\ last.addr = IMEM_DEPTH - 1
    /\ last.passes = 2
    /\ last.addr \in DOMAIN breakpoints

\* C9: the command s executes the instruction at pc in the same step call
\* and leaves a force-break without depth target armed, which stays armed
\* until the next step call; that step call breaks before it fetches
\* (nothing but the force-break changes), whatever the breakpoint table
\* holds, and the force-break is inactive after the break.
C9_SingleStep ==
    /\ []((Stepped /\ last.cmd = "s")
             => (mode = "idle" /\ force_break = <<TRUE, FALSE, 0, FALSE, 0>>))
    /\ [][/\ (mode = "broken" /\ last'.cmd = "s")
               => (last'.op = "step" /\ last'.ret # "")
          /\ (force_break = <<TRUE, FALSE, 0, FALSE, 0>> /\ ~StepStarts)
               => force_break' = force_break
          /\ (force_break = <<TRUE, FALSE, 0, FALSE, 0>> /\ StepStarts)
               => /\ last'.op = "break" /\ last'.brk = "force"
                  /\ mode' = "broken"
                  /\ force_break' = <<FALSE, FALSE, 0, FALSE, 0>>
                  /\ UNCHANGED <<pc, loop_stack, call_stack, breakpoints, other, track>>
         ]_vars

\* C9 witness: a break has been resumed with s, and the next instruction
\* carries a breakpoint.
C9_Witness ==
    /\ Stepped /\ last.cmd = "s" /\ last.ret = "cont"
    /\ pc \in DOMAIN breakpoints

\* C10: the commands n, o and ol arm the force-break with the call depth,
\* the call depth - 1 and the loop depth - 1 at the time of the command; a
\* force-break with a depth target triggers at a step call exactly when that
\* stack's depth equals the target at its start, is inactive after it has
\* triggered, and stays armed as it is otherwise.
C10_DepthTarget ==
    [][/\ (mode = "broken" /\ last'.cmd = "n")
            => force_break' = <<TRUE, TRUE, Len(call_stack), FALSE, 0>>
       /\ (mode = "broken" /\ last'.cmd = "o")
            => force_break' = <<TRUE, TRUE, Len(call_stack) - 1, FALSE, 0>>
       /\ (mode = "broken" /\ last'.cmd = "ol")
            => force_break' = <<TRUE, FALSE, 0, TRUE, Len(loop_stack) - 1>>
       /\ (mode = "idle" /\ force_break[1] /\ (force_break[2] \/ force_break[4]))
            => LET due == \/ force_break[2] /\ Len(call_stack) = force_break[3]
                          \/ force_break[4] /\ Len(loop_stack) = force_break[5]
               IN IF StepStarts /\ due
                  THEN /\ last'.op = "break" /\ last'.brk = "force"
                       /\ force_break' = <<FALSE, FALSE, 0, FALSE, 0>>
                  ELSE /\ last'.brk # "force"
                       /\ force_break' = force_break
      ]_vars

\* C10 witness: a step call has run through while a force-break armed by n
\* or o was waiting for the call stack to come back to its target depth.
C10_Witness ==
    /\ Stepped /\ last.cmd = "" /\ last.brk = "none"
    /\ force_break[1] /\ force_break[2]
    /\ Len(call_stack) # force_break[3]

\* C11: every pop_call_stack that returns gives the most recently pushed
\* return address that has not been popped yet, so that 16 pushes followed
\* by 16 pops return the addresses in reverse push order.
C11_CallLifo ==
    [][(hist'.op = "pop_call" /\ hist'.ret = "")
       => /\ hist.pending # << >>
          /\ hist'.addr = hist.pending[Len(hist.pending)]]_vars

\* C11 witness: 16 pops in a row have emptied a full call stack.
C11_Witness ==
    /\ hist.op = "pop_call" /\ hist.ret = ""
    /\ hist.pops = CALL_STACK_SIZE /\ call_stack = << >>

C13_DecTop ==
    /\ []((hist.op = "dec" /\ hist.n0 # None /\ Len(loop_stack) > 0) =>
            /\ hist.ret = "True" =>
                  loop_stack[Len(loop_stack)][1] = Val(hist.n0) - hist.trues
            /\ hist.ret = "False" => hist.trues = Val(hist.n0))
    /\ [][(hist'.op = "dec" /\ Len(loop_stack) > 0) =>
            LET top == loop_stack[Len(loop_stack)] IN
              /\ top[1] # 0 =>
                   /\ hist'.ret = "True"
                   /\ loop_stack' = [loop_stack EXCEPT ![Len(loop_stack)] =
                                        <<top[1] - 1, top[2], top[3]>>]
              /\ top[1] = 0 =>
                   (hist'.ret = "False" /\ loop_stack' = loop_stack)
         ]_vars

\* C13 witness: after the push of a frame with the largest count, the calls
\* have returned true that many times and then false.
C13_Witness ==
    /\ hist.op = "dec" /\ hist.ret = "False"
    /\ hist.n0 = Some(MaxLoopCnt) /\ hist.trues = MaxLoopCnt
    /\ Len(loop_stack) > 0

\* C14: for every register reference (a general index in 0..31 or one of mod,
\* dmp, rfp, lc, rnd) and every value V in [0, 2^256 - 1], set_reg succeeds,
\* get_reg of that register then returns V, and every other register keeps
\* its value; with a value below 0 or above 2^256 - 1 set_reg fails with the
\* range error and no register changes.
C14_SetGet ==
    [][hist'.op = "set_reg" =>
         IF hist'.val \subseteq 0..(XLEN - 1)
         THEN (\/ (hist'.ref.int /\ hist'.ref.idx \in 0..(NUM_REGS - 1))
               \/ (~hist'.ref.int /\ hist'.ref.name \in SpecialNames))
              => /\ hist'.ret = ""
                 /\ get_reg(r', sreg', hist'.ref) = [err |-> "", val |-> hist'.val]
                 /\ \A i \in 0..(NUM_REGS - 1) :
                      (~hist'.ref.int \/ i # hist'.ref.idx)
                        => Item(r', i) = Item(r, i)
                 /\ \A n \in SpecialNames :
                      (hist'.ref.int \/ n # hist'.ref.name) => sreg'[n] = sreg[n]
         ELSE /\ hist'.ret = "OverflowError"
              /\ r' = r
              /\ sreg' = sreg]_vars

\* C14: the last general register has just been set to 2^256 - 1 while rnd
\* holds 1.
C14_Witness ==
    /\ hist.op = "set_reg"
    /\ hist.ret = ""
    /\ hist.ref = IntRef(NUM_REGS - 1)
    /\ hist.val = xlen_mask
    /\ Item(r, NUM_REGS - 1) = xlen_mask
    /\ sreg["rnd"] = One

\* C15: for a register holding any value in [0, 2^256 - 1], a limb index i
\* in 0..7 and a limb value v in [0, 2^32 - 1], set_reg_limb succeeds, after
\* it get_reg_limb of limb i returns v, and get_reg_limb of every other limb
\* returns what it returned before.
C15_SetLimb ==
    [][(/\ hist'.op = "set_reg_limb"
        /\ get_reg(r, sreg, hist'.ref).err = ""
        /\ hist'.addr \in 0..(LIMBS - 1)
        /\ hist'.val \subseteq 0..(limb_width - 1))
       => /\ hist'.ret = ""
          /\ get_reg_limb(r', sreg', hist'.ref, hist'.addr)
               = [err |-> "", val |-> hist'.val]
          /\ \A j \in 0..(LIMBS - 1) \ {hist'.addr} :
               get_reg_limb(r', sreg', hist'.ref, j)
                 = get_reg_limb(r, sreg, hist'.ref, j)]_vars

\* C16: a successful set of a general register with limb hint i (as
\* set_reg_limb passes it) marks slots 2i and 2i+1 valid, with half-limb
\* hint j marks slot j valid, both leaving the other slots as they were;
\* without hint it marks all 16 slots valid.
C16_Hints ==
    [][(/\ hist'.op \in {"set_reg", "set_reg_limb"}
        /\ hist'.ret = ""
        /\ hist'.ref.int)
       => LET before == Item(r_valid_half_limbs, hist'.ref.idx)
              after  == Item(r_valid_half_limbs', hist'.ref.idx)
              limb   == hist'.limb
              half   == hist'.half
          IN \A j \in 0..(2 * LIMBS - 1) :
               j \in after <=>
                 IF limb # None
                 THEN j \in before \/ j = 2 * Val(limb) \/ j = 2 * Val(limb) + 1
                 ELSE IF half # None
                 THEN j \in before \/ j = Val(half)
                 ELSE TRUE]_vars

\* C17: set_c_z_m_l(v) sets Z = (v mod 2^256 = 0), M = bit 255 of v, L = bit 0
\* of v and C = bit 256 of v (for v below 2^257, C exactly when v >= 2^256)
\* and leaves XC, XZ, XM, XL unchanged; setx_c_z_m_l(v) sets XZ, XM, XL, XC
\* by the same rules and leaves C, Z, M, L unchanged.
C17_Flags ==
    [][LET v == hist'.val
           z == v \cap (0..(XLEN - 1)) = {}
           m == (XLEN - 1) \in v
           l == 0 \in v
           c == XLEN \in v
           below == \A b \in v : b <= XLEN
           atLeast == \E b \in v : b >= XLEN
       IN /\ hist'.op = "set_c_z_m_l" =>
               /\ flags' = [flags EXCEPT !.Z = z, !.M = m, !.L = l, !.C = c]
               /\ below => (flags'.C <=> atLeast)
          /\ hist'.op = "setx_c_z_m_l" =>
               /\ flags' = [flags EXCEPT !.XZ = z, !.XM = m, !.XL = l, !.XC = c]
               /\ below => (flags'.XC <=> atLeast)]_vars

\* C17: set_c_z_m_l(2^256) has just set C and Z and cleared M and L, while
\* the extended flags are as setx_c_z_m_l(2^255) left them.
C17_Witness ==
    /\ hist.op = "set_c_z_m_l"
    /\ hist.val = Shl(One, XLEN)
    /\ flags.C /\ flags.Z /\ ~flags.M /\ ~flags.L
    /\ flags.XM /\ ~flags.XZ /\ ~flags.XC /\ ~flags.XL

\* C18: in every reachable state the cell at an address in 0..127 is marked
\* initialized exactly when it was supplied at construction or reset or
\* set_dmem has written it since; get_dmem changes no cell and no mark, and
\* of an unmarked cell returns the resident value, 0, without failing;
\* set_dmem(a, V) with a and V in range succeeds and get_dmem(a) then
\* returns V.
C18_DmemInit ==
    /\ [](\A a \in 0..(DMEM_DEPTH - 1) :
            a \in init_dmem <=> (a < Len(hist.supplied) \/ a \in hist.written))
    /\ [][/\ hist'.op = "get_dmem" =>
              /\ dmem' = dmem
              /\ init_dmem' = init_dmem
              /\ (hist'.addr \in 0..(DMEM_DEPTH - 1) /\ hist'.addr \notin init_dmem)
                   => /\ hist'.ret = ""
                      /\ hist'.out = Item(dmem, hist'.addr)
                      /\ hist'.out = Zero
          /\ (/\ hist'.op = "set_dmem"
              /\ hist'.addr \in 0..(DMEM_DEPTH - 1)
              /\ hist'.val \subseteq 0..(XLEN - 1))
             => /\ hist'.ret = ""
                /\ get_dmem(dmem', hist'.addr) = [err |-> "", val |-> hist'.val]]_vars

\* C18: with one value supplied, the cell at address 1 has been written with
\* 2^256 - 1 and is marked, and get_dmem of the last cell, unmarked, has just
\* returned 0.
C18_Witness ==
    /\ hist.op = "get_dmem"
    /\ hist.ret = ""
    /\ hist.addr = DMEM_DEPTH - 1
    /\ hist.out = Zero
    /\ (DMEM_DEPTH - 1) \notin init_dmem
    /\ Len(hist.supplied) = 1
    /\ hist.written = {1}
    /\ 1 \in init_dmem
    /\ Item(dmem, 1) = xlen_mask

\* C19: after reset, from any prior state, all 8 flags are false, both stacks
\* are empty and data memory holds the supplied values followed by zeros up
\* to 128 cells; with clear_regs every general register and each of mod,
\* dmp, rfp, lc, rnd holds zero, without it every register keeps its value.
C19_Reset ==
    [][hist'.op = "reset" =>
         /\ \A f \in DOMAIN flags' : ~flags'[f]
         /\ DOMAIN flags' = {"M", "L", "Z", "C", "XM", "XL", "XZ", "XC"}
         /\ loop_stack' = << >>
         /\ call_stack' = << >>
         /\ \A a \in 0..(DMEM_DEPTH - 1) :
              Item(dmem', a) = IF a < Len(hist'.supplied)
                         THEN hist'.supplied[a + 1] ELSE Zero
         /\ IF hist'.clear
            THEN /\ \A i \in 0..(NUM_REGS - 1) : Item(r', i) = Zero
                 /\ \A n \in SpecialNames : sreg'[n] = Zero
            ELSE /\ r' = r
                 /\ sreg' = sreg]_vars

\* C20: the breakpoint table and the force-break state belong to one
\* instance: toggle_breakpoint on one instance leaves the table of the other
\* as it was, arming or clearing the force-break of one leaves that of the
\* other as it was, and a newly constructed instance has an empty table and
\* no force-break.
C20_PerInstance ==
    [][/\ last'.op = "other_toggle" => breakpoints' = breakpoints
       /\ (last'.op \in {"toggle", "cmd_b"} /\ other.made)
            => other_breakpoints' = other_breakpoints
       /\ last'.op = "other_force" => force_break' = force_break
       /\ last'.op \in {"step", "break"} => other_force_break' = other_force_break
       /\ last'.op = "other_init"
            => /\ DOMAIN other_breakpoints' = {}
               /\ ~other_force_break'[1]]_vars

\* C24: pop_call_stack on an empty call stack raises CallStackUnderrun and
\* pop_loop_stack on an empty loop stack raises an underrun error; each is of
\* another kind than the error a push onto the full stack of 16 raises, and
\* the stack is still empty afterwards.
C24_Underrun ==
    [][LET full_calls == [i \in 1..CALL_STACK_SIZE |-> 0]
           full_loops == [i \in 1..LOOP_STACK_SIZE |-> <<0, 0, 0>>]
       IN /\ (hist'.op = "pop_call" /\ call_stack = << >>)
               => /\ hist'.ret = "CallStackUnderrun"
                  /\ hist'.ret # push_call_stack_err(full_calls, 0, imemLen)
                  /\ call_stack' = << >>
          /\ (hist'.op = "pop_loop" /\ loop_stack = << >>)
               => /\ hist'.ret # ""
                  /\ hist'.ret # push_loop_stack_err(full_loops, 0, 0, imemLen)
                  /\ loop_stack' = << >>]_vars

\* C27: a set_reg on a general register that fails, because the index is
\* outside [0, 31] or the value outside [0, 2^256 - 1], leaves the value of
\* every register and every half-limb validity flag as it was.
C27_FailedSet ==
    [][(hist'.op = "set_reg" /\ hist'.ref.int /\ hist'.ret # "")
       => /\ r' = r
          /\ sreg' = sreg
          /\ r_valid_half_limbs' = r_valid_half_limbs]_vars

\* C26: in every state reachable by toggles, debugger commands and step
\* calls, every breakpoint installed with passes P >= 1 has a pass counter C
\* with 1 <= C <= P.
C26_CounterRange ==
    \A a \in DOMAIN breakpoints :
       breakpoints[a][1] >= 1
         => (1 <= breakpoints[a][2] /\ breakpoints[a][2] <= breakpoints[a][1])

\* C26: a step has just passed a breakpoint of MaxPasses passes without
\* breaking, and its counter has reached MaxPasses.
C26_Witness ==
    /\ last.op = "step"
    /\ last.brk = "none"
    /\ \E a \in DOMAIN breakpoints : breakpoints[a] = <<MaxPasses, MaxPasses>>

\* C22: a step that starts with a force-break active whose condition is met
\* breaks, leaves the force-break inactive and changes no pass counter,
\* whether or not pc carries a breakpoint; a step that starts with a
\* force-break active whose condition is not met evaluates the breakpoint
\* table as it would without a force-break (it breaks exactly when the
\* counter at pc has reached its passes, resetting it to 1, and otherwise
\* advances the counter by one) and leaves the force-break armed.
C22_ForceBreak ==
    [][(StepStarts /\ force_break[1])
       => IF ForceMet(force_break, loop_stack, call_stack)
          THEN /\ last'.op = "break"
               /\ last'.brk = "force"
               /\ ~force_break'[1]
               /\ breakpoints' = breakpoints
          ELSE /\ force_break' = force_break
               /\ IF pc \in DOMAIN breakpoints
                  THEN LET P == breakpoints[pc][1]
                           C == breakpoints[pc][2]
                       IN IF C = P
                          THEN /\ last'.op = "break"
                               /\ last'.brk = "bp"
                               /\ breakpoints' = [breakpoints EXCEPT ![pc] = <<P, 1>>]
                          ELSE /\ last'.op = "step"
                               /\ breakpoints'
                                    = [breakpoints EXCEPT ![pc] = <<P, C + 1>>]
                  ELSE /\ last'.op = "step"
                       /\ breakpoints' = breakpoints]_vars

\* C22: a step has just broken on a force-break at an address that carries a
\* breakpoint, and the force-break is inactive.
C22_Witness ==
    /\ last.op = "break"
    /\ last.brk = "force"
    /\ pc \in DOMAIN breakpoints
    /\ ~force_break[1]

\* C23: after a step whose instruction, at pc = A, returned with an empty
\* call stack (finish), the breakpoint table contains A, whether or not A
\* carried a breakpoint before; and that step returns continue = false only
\* if it started at the stop address or at the last instruction.
C23_Finish ==
    [][(last'.op = "step" /\ last'.fin)
       => /\ pc \in DOMAIN breakpoints'
          /\ last'.ret = "stop"
               => \/ (IF mode = "idle" THEN pc = stop_addr ELSE halt)
                  \/ pc + 1 >= imemLen]_vars
\* C25 as stated: when the instruction at start - 1 pushes the loop frame
\* <<N, end, start>> with 1 <= start <= end and the instructions of
\* [start, end] return no jump address and touch neither stack, then under
\* repeated stepping the instruction at end executes exactly N + 1 times,
\* after which the frame has been popped, the loop stack is as deep as
\* before the push and pc = end + 1; and the loop always terminates.
C25_Original ==
    /\ [](/\ ~track.lost
          /\ track.ends <= track.N + 1
          /\ track.done =>
                /\ track.ends = track.N + 1
                /\ Len(loop_stack) = track.depth
                /\ pc = track.end + 1)
    /\ ((track.on /\ ~track.done) ~> (~track.on \/ track.done))

\* C25, amended: as above, but pc = end + 1 only when end is not the last
\* instruction; when it is, pc stays at end and the step that popped the
\* frame returns continue = false.
C25_Loop ==
    /\ [](/\ ~track.lost
          /\ track.ends <= track.N + 1
          /\ track.done =>
                /\ track.ends = track.N + 1
                /\ Len(loop_stack) = track.depth
                /\ IF track.end + 1 < imemLen
                   THEN pc = track.end + 1
                   ELSE pc = track.end /\ last.ret = "stop")
    /\ ((track.on /\ ~track.done) ~> (~track.on \/ track.done))

\* C25: a followed loop with N = MaxLoopCnt that ends before the last
\* instruction has been completed.
C25_Witness ==
    track.done /\ track.N = MaxLoopCnt /\ track.end + 1 < imemLen

====
